---- MODULE Spec2Model ----
(***************************************************************************)
(* Model of the frost-cracking notebook (src/frost-cracking-index.ipynb):  *)
(* the class FROST_CRACK_2D (constructor and run_one_step) and the driver  *)
(* cell that loops "while fc.current_timestep < len(fc.Ts)".               *)
(*                                                                         *)
(* Numbers.  The notebook computes in IEEE doubles; the model computes in  *)
(* exact rational arithmetic (a rational is a pair <<n, d>> in lowest      *)
(* terms with d > 0), so rounding error is not modelled.  Arrays keep the  *)
(* notebook's 0-based indices: an array of length N is a function with     *)
(* domain 0..N-1.                                                          *)
(*                                                                         *)
(* Inputs.  The files the constructor reads are inputs: the DEM's          *)
(* elevations, and the netCDF record (time stamps and the temperature      *)
(* column of the grid point nearest to lat/lon, whose lookup is not        *)
(* modelled).  Attributes that no statement reads back (x, y, frostcrackHR,*)
(* max_act_layer_depth, grid) are left out; geotherm, thermal_diffusivity  *)
(* and num_nodes are copies of the arguments and are read from args.       *)
(* Assertions are taken to be enabled (Python not run with -O).            *)
(*                                                                         *)
(* Grid.  The DEM read by the constructor is represented by two of its     *)
(* cells: the cell run_one_step works on, (500, 400), and one other cell,  *)
(* (300, 600), which the notebook plots.                                   *)
(***************************************************************************)
EXTENDS Integers, Sequences, FiniteSets, TLC

(***************************************************************************)
(* Exact rational arithmetic                                               *)
(***************************************************************************)
Abs(i) == IF i < 0 THEN -i ELSE i

RECURSIVE GCD(_, _)
GCD(a, b) == IF b = 0 THEN a ELSE GCD(b, a % b)

\* the rational n/d (d # 0) in lowest terms with a positive denominator
Rat(n, d) ==
  LET g == GCD(Abs(n), Abs(d))
      s == IF d < 0 THEN -1 ELSE 1
  IN  << (s * n) \div g, (s * d) \div g >>

FromInt(i) == << i, 1 >>
Zero == FromInt(0)

RNeg(a) == << -a[1], a[2] >>

RAdd(a, b) ==
  LET g == GCD(a[2], b[2])
  IN  Rat(a[1] * (b[2] \div g) + b[1] * (a[2] \div g), (a[2] \div g) * b[2])

RSub(a, b) == RAdd(a, RNeg(b))

RMul(a, b) ==
  LET g1 == GCD(Abs(a[1]), b[2])
      g2 == GCD(Abs(b[1]), a[2])
  IN  Rat((a[1] \div g1) * (b[1] \div g2), (a[2] \div g2) * (b[2] \div g1))

\* a / b for b # 0
RDiv(a, b) == RMul(a, Rat(b[2], b[1]))

RLt(a, b) == a[1] * b[2] < b[1] * a[2]
RGt(a, b) == RLt(b, a)

\* the least integer >= a
Ceil(a) == -((-a[1]) \div a[2])

(***************************************************************************)
(* numpy helpers, on 0-based arrays                                        *)
(***************************************************************************)
Size(a) == Cardinality(DOMAIN a)

\* np.diff
Diff(a) == [i \in 0..(Size(a) - 2) |-> RSub(a[i + 1], a[i])]

RECURSIVE SumTo(_, _)
SumTo(a, n) == IF n = 0 THEN Zero ELSE RAdd(SumTo(a, n - 1), a[n - 1])

\* np.mean of a non-empty array
Mean(a) == RDiv(SumTo(a, Size(a)), FromInt(Size(a)))

\* np.arange(0, stop, step) for stop > 0, step > 0
Arange(stop, step) == [j \in 0..(Ceil(RDiv(stop, step)) - 1) |-> RMul(FromInt(j), step)]

\* np.linspace(0, stop, num): num evenly spaced samples, both ends included
Linspace(stop, num) ==
  [i \in 0..(num - 1) |-> RMul(FromInt(i), RDiv(stop, FromInt(num - 1)))]

\* np.interp(x, xp, fp) at one point x with xp[0] <= x < xp[last]
InterpAt(x, xp, fp) ==
  LET i == CHOOSE k \in 0..(Size(xp) - 2) : ~RLt(x, xp[k]) /\ RLt(x, xp[k + 1])
      slope == RDiv(RSub(fp[i + 1], fp[i]), RSub(xp[i + 1], xp[i]))
  IN  RAdd(RMul(slope, RSub(x, xp[i])), fp[i])

Interp(xs, xp, fp) == [j \in DOMAIN xs |-> InterpAt(xs[j], xp, fp)]

(***************************************************************************)
(* Bounds and inputs                                                       *)
(***************************************************************************)
\* longest raw (netCDF) temperature record tried, in samples
MaxRawLen == 3

\* run_one_step works on this one cell (x, y = 500, 400)
Node == << 500, 400 >>
\* another cell of the grid (the notebook plots fc.temp[300, 600, :])
OtherNode == << 300, 600 >>
Nodes == {Node, OtherNode}

\* elevations read from the DEM file: a flat terrain, and a sloping one whose
\* second cell holds a data gap (a value below -100)
Dems ==
  { [n \in Nodes |-> 0],
    [n \in Nodes |-> IF n = Node THEN 2 ELSE -200] }

\* raw surface temperatures, in Kelvin: -8, -5 and -3 degrees C
KelvinValues == { Rat(26515, 100), Rat(26815, 100), Rat(27015, 100) }

\* raw time stamps, in days since the file's epoch, H hours apart
RawTimes(L, H) == [i \in 0..(L - 1) |-> Rat(24 + i * H, 24)]
RawSpacings == {1, 2}

Geotherms == {0, 1}

DefaultLapseRate == Rat(-6, 1000)

\* << profile_depth, num_nodes, thermal_diffusivity >>: with dz = 1 the three
\* diffusivities make dz^2/(2*thermal_diffusivity) 7200 s, 3600 s and 1800 s
Geometries ==
  { << 3, 4, Rat(1, 14400) >>, << 3, 4, Rat(1, 7200) >>, << 3, 4, Rat(1, 3600) >>,
    << -3, 4, Rat(1, 14400) >>, << -3, 4, Rat(1, 7200) >>,
    << 3, 2, Rat(1, 3600) >>, << -3, 2, Rat(1, 14400) >>,
    << 3, 1, Rat(1, 14400) >>, << 0, 1, Rat(1, 14400) >>,
    << 3, 0, Rat(1, 14400) >>, << -3, 0, Rat(1, 3600) >>,
    << 0, 4, Rat(1, 14400) >>, << 0, 0, Rat(1, 14400) >> }

ConfigsOfLength(L) ==
  { [use_dem |-> TRUE, dem |-> d, temp_lapse_rate |-> DefaultLapseRate,
     thermal_diffusivity |-> geo[3], profile_depth |-> FromInt(geo[1]),
     geotherm |-> FromInt(g), num_nodes |-> geo[2], t |-> RawTimes(L, h), ts |-> s] :
       d \in Dems, geo \in Geometries, g \in Geotherms, h \in RawSpacings,
       s \in [0..(L - 1) -> KelvinValues] }

\* one call with use_dem = False
NoDemConfig ==
  [use_dem |-> FALSE, dem |-> [n \in Nodes |-> 0], temp_lapse_rate |-> DefaultLapseRate,
   thermal_diffusivity |-> Rat(1, 14400), profile_depth |-> FromInt(3),
   geotherm |-> FromInt(1), num_nodes |-> 4, t |-> RawTimes(2, 2),
   ts |-> [i \in 0..1 |-> Rat(26815, 100)]]

Configs == (UNION { ConfigsOfLength(L) : L \in 2..MaxRawLen }) \cup {NoDemConfig}

(***************************************************************************)
(* FROST_CRACK_2D.__init__, piece by piece                                 *)
(***************************************************************************)
RECURSIVE SumOver(_, _)
SumOver(f, S) ==
  IF S = {} THEN Zero
  ELSE LET x == CHOOSE y \in S : TRUE IN RAdd(f[x], SumOver(f, S \ {x}))

MeanOver(f) == RDiv(SumOver(f, DOMAIN f), FromInt(Cardinality(DOMAIN f)))

\* dem_data[dem_data < -100] = np.nanmean(dem_data); self.elevation = dem_data[0]
Elevation(a) ==
  LET raw == [n \in Nodes |-> FromInt(a.dem[n])]
      fill == MeanOver(raw)
  IN  [n \in Nodes |-> IF RLt(raw[n], FromInt(-100)) THEN fill ELSE raw[n]]

\* self.T_ele = np.mean(dem_data)
TEle(a) == MeanOver(Elevation(a))

\* self.Ts_org = ts[:, ts_lat, ts_lon]; self.Ts_org -= 273.15
TsOrg(a) == [i \in DOMAIN a.ts |-> RSub(a.ts[i], Rat(27315, 100))]

\* t = (t - t[0])*24*60*60
RawSeconds(a) == [i \in DOMAIN a.t |-> RMul(RSub(a.t[i], a.t[0]), FromInt(24 * 60 * 60))]

\* tnew = np.arange(0, t[-1], 3600)
NewTime(a) == Arange(RawSeconds(a)[Size(a.t) - 1], FromInt(3600))

\* Ts_new = np.interp(tnew, t, self.Ts_org)
NewTs(a) == Interp(NewTime(a), RawSeconds(a), TsOrg(a))

\* self.dz = profile_depth / (num_nodes - 1), for num_nodes # 1
Dz(a) == RDiv(a.profile_depth, FromInt(a.num_nodes - 1))

\* self.timestep_duration_should = self.dz * self.dz / (2*thermal_diffusivity)
TimestepShould(dz, thermal_diffusivity) ==
  RDiv(RMul(dz, dz), RMul(FromInt(2), thermal_diffusivity))

\* self.timestep_duration_is = self.time[1] - self.time[0]
TimestepIs(time) == RSub(time[1], time[0])

\* a variant that accepts dt_stable = dt_forcing
StabilityGateLoose(should, is) == ~RLt(should, is)
\* assert self.timestep_duration_should > self.timestep_duration_is
StabilityGate(should, is) == RGt(should, is)

\* Ts0_ele = self.Ts_ini + self.temp_lapse_rate*(self.elevation - self.T_ele)
Ts0Ele(a, n) ==
  LET elevation == Elevation(a)
  IN  RAdd(Mean(NewTs(a)), RMul(a.temp_lapse_rate, RSub(elevation[n], MeanOver(elevation))))

\* self.depth = np.linspace(0, profile_depth, num_nodes)
Depth(a) == Linspace(a.profile_depth, a.num_nodes)

\* self.temp = self.Ts0_ele + geotherm_matrix
InitialTemp(a) ==
  LET d == Depth(a)
      surface == [n \in Nodes |-> Ts0Ele(a, n)]
  IN  [n \in Nodes |-> [i \in DOMAIN d |-> RAdd(surface[n], RMul(a.geotherm, d[i]))]]

\* self.frostcrackA = np.zeros_like(self.temp)
InitialFrost(a) == [n \in Nodes |-> [i \in DOMAIN Depth(a) |-> Zero]]

\* the exception the constructor ends with, "none" when it returns
ConstructError(a) ==
  IF ~a.use_dem THEN "UnboundLocalError"           \* dem[...] read before assignment
  ELSE IF a.num_nodes - 1 = 0 THEN "ZeroDivisionError"   \* profile_depth / 0
  ELSE IF Size(NewTime(a)) < 2 THEN "IndexError"   \* self.time[1]
  ELSE IF ~StabilityGate(TimestepShould(Dz(a), a.thermal_diffusivity),
                         TimestepIs(NewTime(a))) THEN "AssertionError"
  ELSE "none"

(***************************************************************************)
(* FROST_CRACK_2D.run_one_step, piece by piece                             *)
(***************************************************************************)
\* a variant that steps every cell of the grid
AllNodesStepped == Nodes
\* x, y = 500, 400: the one cell the step works on
SteppedNodes == {Node}

\* a variant that re-initialises one step late
IsSecondStep(k) == k = 1
\* if self.current_timestep==0:
IsFirstStep(k) == k = 0

\* self.temp[x,y,:] = np.mean(self.Ts_org) + self.geotherm * self.depth
ResetProfile(Ts_org_, geotherm, depth_) ==
  [i \in DOMAIN depth_ |-> RAdd(Mean(Ts_org_), RMul(geotherm, depth_[i]))]

\* a variant that clamps the index to the last sample
ClampedIndex(k, Ts_) == IF k < Size(Ts_) THEN k ELSE Size(Ts_) - 1
\* the index self.current_timestep of self.Ts[self.current_timestep]
ForcingIndex(k, Ts_) == k

\* a variant that averages the forcing with the previous surface value
BlendedBoundary(T, forcing) == RDiv(RAdd(T[0], forcing), FromInt(2))
\* self.temp[x,y,0] = self.Ts_ini: the value stored in sample 0
BoundaryValue(T, forcing) == forcing

\* q = -self.thermal_diffusivity * np.diff(self.temp[x,y,:])/self.dz
Flux(T, thermal_diffusivity, dz_) ==
  [i \in DOMAIN Diff(T) |-> RDiv(RMul(RNeg(thermal_diffusivity), Diff(T)[i]), dz_)]

\* a variant that closes the profile with a zero-gradient last sample
InteriorUpdateZeroGradient(T, q, dt, dz_) ==
  LET U == [i \in DOMAIN T |->
              IF 1 <= i /\ i <= Size(T) - 2
              THEN RSub(T[i], RDiv(RMul(dt, Diff(q)[i - 1]), dz_))
              ELSE T[i]]
  IN  [i \in DOMAIN T |-> IF i = Size(T) - 1 /\ i >= 2 THEN U[i - 1] ELSE U[i]]

\* a variant that sweeps the samples in place, top to bottom
RECURSIVE SweepFrom(_, _, _, _, _)
SweepFrom(T, i, thermal_diffusivity, dt, dz_) ==
  IF i > Size(T) - 2 THEN T
  ELSE LET q == Flux(T, thermal_diffusivity, dz_)
           Ti == RSub(T[i], RDiv(RMul(dt, Diff(q)[i - 1]), dz_))
       IN  SweepFrom([T EXCEPT ![i] = Ti], i + 1, thermal_diffusivity, dt, dz_)

\* self.temp[x,y,1:-1] = self.temp[x,y,1:-1] - self.timestep_duration_is*np.diff(q)/self.dz
InteriorUpdate(T, q, dt, dz_) ==
  [i \in DOMAIN T |->
     IF 1 <= i /\ i <= Size(T) - 2
     THEN RSub(T[i], RDiv(RMul(dt, Diff(q)[i - 1]), dz_))
     ELSE T[i]]

\* a variant in which each sample sees its upper neighbour's new value
DiffuseInPlace(T, thermal_diffusivity, dt, dz_) ==
  SweepFrom(T, 1, thermal_diffusivity, dt, dz_)
\* the two lines above together: the flux of the profile, then the update
Diffuse(T, thermal_diffusivity, dt, dz_) ==
  InteriorUpdate(T, Flux(T, thermal_diffusivity, dz_), dt, dz_)

\* cond1 = temp > -8; cond2 = temp < -3; cond1 & cond2
InWindow(T) == RGt(T, FromInt(-8)) /\ RLt(T, FromInt(-3))

\* += 1/(3600*24*365)
FrostIncrement == Rat(1, 3600 * 24 * 365)

\* self.frostcrackA[x,y,:][cond1 & cond2] += 1/(3600*24*365)
Accumulate(frost, T) ==
  [i \in DOMAIN frost |-> IF InWindow(T[i]) THEN RAdd(frost[i], FrostIncrement) ELSE frost[i]]

(***************************************************************************)
(* State                                                                   *)
(***************************************************************************)
VARIABLES
  args,                      \* the constructor's arguments and the files' contents
  pc,                        \* "new", "failed", "loop", "aborted", "done"
  err,                       \* the exception the last call raised, or "none"
  Ts_org, Ts, Ts_ini,        \* self.Ts_org, self.Ts, self.Ts_ini
  dz,                        \* self.dz
  timestep_duration_should,  \* self.timestep_duration_should
  timestep_duration_is,      \* self.timestep_duration_is
  depth,                     \* self.depth
  temp,                      \* self.temp, by cell
  frostcrackA,               \* self.frostcrackA, by cell
  current_time,              \* self.current_time
  current_timestep,          \* self.current_timestep
  loopCalls,                 \* history: run_one_step calls made by the driver loop
  consumed                   \* history: the indices of self.Ts the loop's calls read, in order

fields == << Ts_org, Ts, Ts_ini, dz, timestep_duration_should, timestep_duration_is,
             depth, temp, frostcrackA, current_time, current_timestep >>
vars == << args, pc, err, fields, loopCalls, consumed >>

\* before the constructor has run there is no object: the fields hold blanks
Init ==
  /\ args \in Configs
  /\ pc = "new"
  /\ err = "none"
  /\ Ts_org = << >> /\ Ts = << >> /\ Ts_ini = Zero
  /\ dz = Zero /\ timestep_duration_should = Zero /\ timestep_duration_is = Zero
  /\ depth = << >>
  /\ temp = [n \in Nodes |-> << >>]
  /\ frostcrackA = [n \in Nodes |-> << >>]
  /\ current_time = Zero
  /\ current_timestep = 0
  /\ loopCalls = 0
  /\ consumed = << >>

(***************************************************************************)
(* fc = FROST_CRACK_2D(...): a constructor that raises leaves no object    *)
(***************************************************************************)
Construct ==
  /\ pc = "new"
  /\ err' = ConstructError(args)
  /\ IF ConstructError(args) = "none"
     THEN /\ pc' = "loop"
          /\ Ts_org' = TsOrg(args)
          /\ Ts' = NewTs(args)
          /\ Ts_ini' = Mean(NewTs(args))
          /\ dz' = Dz(args)
          /\ timestep_duration_should' = TimestepShould(Dz(args), args.thermal_diffusivity)
          /\ timestep_duration_is' = TimestepIs(NewTime(args))
          /\ depth' = Depth(args)
          /\ temp' = InitialTemp(args)
          /\ frostcrackA' = InitialFrost(args)
          /\ current_time' = Zero
          /\ current_timestep' = 0
     ELSE /\ pc' = "failed"
          /\ UNCHANGED fields
  /\ UNCHANGED << args, loopCalls, consumed >>

(***************************************************************************)
(* fc.run_one_step(): the whole method, its exceptions included            *)
(***************************************************************************)
\* the profile of one stepped cell after the assignments up to the update
SteppedProfile(T, k) ==
  LET T0 == IF IsFirstStep(k)
            THEN ResetProfile(Ts_org, args.geotherm, depth)
            ELSE T
      T1 == [T0 EXCEPT ![0] = BoundaryValue(T0, Ts[ForcingIndex(k, Ts)])]
  IN  Diffuse(T1, args.thermal_diffusivity, timestep_duration_is, dz)

\* the profile of one stepped cell when the method raises before the update
ResetOnly(T, k) ==
  IF IsFirstStep(k) THEN ResetProfile(Ts_org, args.geotherm, depth) ELSE T

RunOneStep ==
  LET k == current_timestep IN
  IF ForcingIndex(k, Ts) \notin DOMAIN Ts
  THEN \* self.Ts[self.current_timestep] raises
       /\ err' = "IndexError"
       /\ temp' = [n \in Nodes |-> IF n \in SteppedNodes THEN ResetOnly(temp[n], k) ELSE temp[n]]
       /\ UNCHANGED << Ts_org, Ts, Ts_ini, dz, timestep_duration_should,
                       timestep_duration_is, depth, frostcrackA, current_time,
                       current_timestep >>
  ELSE IF Size(temp[Node]) = 0
  THEN \* self.temp[x,y,0] = ... raises on a profile without samples
       /\ err' = "IndexError"
       /\ Ts_ini' = Ts[ForcingIndex(k, Ts)]
       /\ temp' = [n \in Nodes |-> IF n \in SteppedNodes THEN ResetOnly(temp[n], k) ELSE temp[n]]
       /\ UNCHANGED << Ts_org, Ts, dz, timestep_duration_should, timestep_duration_is,
                       depth, frostcrackA, current_time, current_timestep >>
  ELSE /\ err' = "none"
       /\ Ts_ini' = Ts[ForcingIndex(k, Ts)]
       /\ temp' = [n \in Nodes |-> IF n \in SteppedNodes THEN SteppedProfile(temp[n], k) ELSE temp[n]]
       /\ current_time' = RAdd(current_time, timestep_duration_is)
       /\ current_timestep' = current_timestep + 1
       /\ frostcrackA' = [n \in Nodes |->
                            IF n \in SteppedNodes
                            THEN Accumulate(frostcrackA[n], temp'[n])
                            ELSE frostcrackA[n]]
       /\ UNCHANGED << Ts_org, Ts, dz, timestep_duration_should, timestep_duration_is, depth >>

(***************************************************************************)
(* The driver cell: while fc.current_timestep < len(fc.Ts): run_one_step   *)
(***************************************************************************)
LoopStep ==
  /\ pc = "loop"
  /\ current_timestep < Size(Ts)
  /\ RunOneStep
  /\ loopCalls' = loopCalls + 1
  /\ consumed' = IF ForcingIndex(current_timestep, Ts) \in DOMAIN Ts
                 THEN Append(consumed, ForcingIndex(current_timestep, Ts))
                 ELSE consumed
  /\ pc' = IF err' = "none" THEN "loop" ELSE "aborted"
  /\ UNCHANGED args

LoopExit ==
  /\ pc = "loop"
  /\ ~(current_timestep < Size(Ts))
  /\ pc' = "done"
  /\ UNCHANGED << args, err, fields, loopCalls, consumed >>

\* a further call of fc.run_one_step() once the loop has ended
FurtherCall ==
  /\ pc \in {"done", "aborted"}
  /\ RunOneStep
  /\ UNCHANGED << args, pc, loopCalls, consumed >>

Next == Construct \/ LoopStep \/ LoopExit \/ FurtherCall

Spec == Init /\ [][Next]_vars

(***************************************************************************)
(* Vocabulary of the properties                                            *)
(***************************************************************************)
\* a constructor call returned: the object fc exists
Constructed == pc \in {"loop", "aborted", "done"}

\* number of depth samples of a profile
N == Size(depth)

\* a call of run_one_step that returned takes the state to the next one
StepTaken == current_timestep' = current_timestep + 1

SecondsPerYear == FromInt(3600 * 24 * 365)

\* the stability bound and the forcing interval, from the arguments alone
DtStable(a) ==
  LET dz_a == RDiv(a.profile_depth, FromInt(a.num_nodes - 1))
  IN  RDiv(RMul(dz_a, dz_a), RMul(FromInt(2), a.thermal_diffusivity))
DtForcing(a) == RSub(NewTime(a)[1], NewTime(a)[0])
GateReached(a) == a.use_dem /\ a.num_nodes # 1 /\ Size(NewTime(a)) >= 2

\* surface_estimate = mean(ForcingSeries) + lapse_rate * (elevation - reference_elevation)
SurfaceEstimate(n) ==
  RAdd(Mean(Ts), RMul(args.temp_lapse_rate, RSub(Elevation(args)[n], TEle(args))))

\* the forcing series is constant, of value c
ConstantForcing(c) == \A j \in DOMAIN Ts : Ts[j] = c
Uniform(T, c) == \A i \in DOMAIN T : T[i] = c

\* thermal_diffusivity * dt_forcing / dz^2
DiffusionNumber == RDiv(RMul(args.thermal_diffusivity, timestep_duration_is), RMul(dz, dz))

\* T[i] + r*(T[i+1] - 2*T[i] + T[i-1])
Laplacian(T, i) ==
  RAdd(T[i], RMul(DiffusionNumber,
                  RAdd(RSub(T[i + 1], RMul(FromInt(2), T[i])), T[i - 1])))

(***************************************************************************)
(* C1  Stability gate.  Whenever dt_stable = dz^2/(2*thermal_diffusivity)  *)
(* is not strictly greater than dt_forcing (equality included), the        *)
(* constructor fails at its assertion and no step is ever taken; and in    *)
(* every state in which a step has been taken or a call made,              *)
(* dt_stable > dt_forcing.                                                 *)
(***************************************************************************)
C1_StabilityGate ==
  /\ (pc # "new" /\ GateReached(args) /\ ~RGt(DtStable(args), DtForcing(args)))
       => (pc = "failed" /\ err = "AssertionError"
           /\ current_timestep = 0 /\ loopCalls = 0)
  /\ (current_timestep > 0 \/ loopCalls > 0)
       => RGt(timestep_duration_should, timestep_duration_is)

\* the equality case dt_stable = dt_forcing has been rejected
C1_Witness ==
  /\ pc = "failed" /\ err = "AssertionError"
  /\ GateReached(args)
  /\ DtStable(args) = DtForcing(args)

(***************************************************************************)
(* C2  Frost-window accumulation, as claimed: a step adds exactly          *)
(* dt_forcing / seconds_per_year to the frost index of every sample of the *)
(* stepped cell whose post-step temperature is strictly inside (-8, -3),   *)
(* and 0 to the others.                                                    *)
(***************************************************************************)
C2_Original ==
  [][StepTaken =>
       \A i \in DOMAIN temp'[Node] :
          frostcrackA'[Node][i] =
            RAdd(frostcrackA[Node][i],
                 IF RGt(temp'[Node][i], FromInt(-8)) /\ RLt(temp'[Node][i], FromInt(-3))
                 THEN RDiv(timestep_duration_is, SecondsPerYear)
                 ELSE Zero)]_vars

(***************************************************************************)
(* C3  Boundary overwrite.  After the k-th successful call (k >= 1 calls   *)
(* made, so current_timestep = k), temp[0] of the stepped cell is exactly  *)
(* the forcing sample that call read, Ts[k-1].                             *)
(***************************************************************************)
C3_BoundaryOverwrite ==
  current_timestep >= 1 => temp[Node][0] = Ts[current_timestep - 1]

\* two steps with different forcing values on a profile with interior samples
C3_Witness ==
  /\ current_timestep = 2 /\ N = 4
  /\ Ts[1] # Ts[0]
  /\ temp[Node][0] = Ts[1]
  /\ temp[Node][1] # Ts[1]

(***************************************************************************)
(* C4  Completed driver is read-only.  Once the loop has ended with        *)
(* current_timestep = len(Ts), every further run_one_step call raises      *)
(* (IndexError, from self.Ts[self.current_timestep]) and leaves temp, the  *)
(* frost index, current_time and current_timestep unchanged.               *)
(***************************************************************************)
C4_CompletedReadOnly ==
  [][(pc = "done" /\ current_timestep = Size(Ts)) =>
       /\ err' = "IndexError"
       /\ temp' = temp
       /\ frostcrackA' = frostcrackA
       /\ current_time' = current_time
       /\ current_timestep' = current_timestep]_vars

\* a call was made on the completed driver and raised
C4_Witness ==
  /\ pc = "done" /\ err = "IndexError"
  /\ current_timestep = Size(Ts)
  /\ \E i \in DOMAIN frostcrackA[Node] : frostcrackA[Node][i] # Zero

(***************************************************************************)
(* C5  Driver loop and clock, as claimed: every call made by the loop      *)
(* advances current_timestep by 1 and current_time by dt_forcing, so that  *)
(* current_timestep counts the calls and current_time = current_timestep * *)
(* dt_forcing; and the loop ends only with current_timestep = len(Ts),     *)
(* after len(Ts) calls that read the samples 0 .. len(Ts)-1 in order.      *)
(***************************************************************************)
C5_Original ==
  Constructed =>
    /\ current_timestep = loopCalls
    /\ current_time = RMul(FromInt(current_timestep), timestep_duration_is)
    /\ pc # "loop" =>
         /\ pc = "done"
         /\ current_timestep = Size(Ts)
         /\ consumed = [j \in 1..Size(Ts) |-> j - 1]

(***************************************************************************)
(* C6  Lower boundary frame, as claimed: after any number of steps the     *)
(* last sample of the stepped cell still holds the value given at          *)
(* construction, surface_estimate + geotherm * profile_depth.              *)
(***************************************************************************)
C6_Original ==
  (Constructed /\ N >= 2) =>
    temp[Node][N - 1] =
      RAdd(SurfaceEstimate(Node), RMul(args.geotherm, args.profile_depth))

(***************************************************************************)
(* C6 amended.  Before the first step the last sample holds the            *)
(* construction value; the first step replaces it by mean(Ts_org) +        *)
(* geotherm * profile_depth, and every later step leaves it at that value. *)
(***************************************************************************)
C6_LowerBoundary ==
  (Constructed /\ N >= 2) =>
    temp[Node][N - 1] =
      IF current_timestep = 0
      THEN RAdd(SurfaceEstimate(Node), RMul(args.geotherm, args.profile_depth))
      ELSE RAdd(Mean(Ts_org), RMul(args.geotherm, args.profile_depth))

\* steps were taken, the sample above the last one has moved away from it, and the
\* last sample differs from its construction value
C6_Witness ==
  /\ current_timestep >= 2 /\ N = 4
  /\ temp[Node][N - 1] # InitialTemp(args)[Node][N - 1]
  /\ temp[Node][N - 2] # temp[Node][N - 1]
  /\ temp[Node][N - 1] = RAdd(Mean(Ts_org), RMul(args.geotherm, args.profile_depth))

(***************************************************************************)
(* C7  Profile parameter validation, as claimed: a constructor call with   *)
(* num_nodes < 2 or profile_depth <= 0 fails, so no driver exists and no   *)
(* call of run_one_step is made on it.                                     *)
(***************************************************************************)
C7_Original ==
  (pc # "new" /\ args.use_dem
     /\ (args.num_nodes < 2 \/ ~RGt(args.profile_depth, Zero)))
    => (pc = "failed" /\ loopCalls = 0)

C9_Original ==
  [][StepTaken =>
       LET T == [temp[Node] EXCEPT ![0] = Ts[current_timestep]]
       IN  \A i \in 1..(N - 2) : temp'[Node][i] = Laplacian(T, i)]_vars

(***************************************************************************)
(* C9 amended.  The same with T the profile the step diffuses: on the      *)
(* first call the re-initialised profile mean(Ts_org) + geotherm*depth, on *)
(* later calls the profile before the call, in both cases with T[0]        *)
(* replaced by the forcing value of this step.  All interior samples are   *)
(* computed from T, none from an already updated neighbour.                *)
(***************************************************************************)
C9_StepFormula ==
  [][StepTaken =>
       LET P == IF current_timestep = 0
                THEN [i \in DOMAIN depth |-> RAdd(Mean(Ts_org), RMul(args.geotherm, depth[i]))]
                ELSE temp[Node]
           T == [P EXCEPT ![0] = Ts[current_timestep]]
       IN  \A i \in 1..(N - 2) : temp'[Node][i] = Laplacian(T, i)]_vars

\* two steps on a profile with two interior samples that have both moved
C9_Witness ==
  /\ current_timestep >= 2 /\ N = 4
  /\ temp[Node][1] # temp[Node][2]
  /\ temp[Node][2] # temp[Node][3]
  /\ temp[Node][1] # temp[Node][0]

(***************************************************************************)
(* C10  Node isolation.  No call made on the constructed object changes   *)
(* the profile or the frost index of the cell the step does not work on,   *)
(* nor the forcing series Ts: they keep the values the constructor gave.   *)
(***************************************************************************)
C10_NodeIsolation ==
  [][Constructed =>
       /\ temp'[OtherNode] = temp[OtherNode]
       /\ frostcrackA'[OtherNode] = frostcrackA[OtherNode]
       /\ Ts' = Ts]_vars

\* the stepped cell has changed, in profile and in frost index, the other has not
C10_Witness ==
  /\ current_timestep >= 2 /\ N = 4
  /\ temp[Node] # InitialTemp(args)[Node]
  /\ frostcrackA[Node] # frostcrackA[OtherNode]
  /\ temp[OtherNode] = InitialTemp(args)[OtherNode]
====
